---- MODULE Spec2Model ----
(***************************************************************************)
(* A model of verificateur.py: the expression classes (eval, vars,         *)
(* __repr__), the lexer, the recursive-descent Parser, all_valuations and  *)
(* the decision procedures built on them.                                  *)
(*                                                                         *)
(* Text is modelled as it is in Python: a string is a sequence of          *)
(* characters, each character a one-letter TLA+ string.  A token and a     *)
(* variable name are therefore sequences of characters as well.            *)
(***************************************************************************)
EXTENDS Integers, Sequences, FiniteSets, TLC

VARIABLES
  src,        \* parse(s): the string s handed to parse
  tokens,     \* Parser.tokens
  pos,        \* Parser.pos
  stack,      \* the Python call stack of the Parser's methods, top last
  ret,        \* the value returned by the call that returned last
  status,     \* "init" | "running" | "ok" | "failed" of the current parse(s)
  err,        \* the kind of ParserError raised, "none" when none
  result,     \* the Expr parse(s) returned
  round,      \* 1: parsing the input, 2: parsing repr() of the first result
  first,      \* the Expr of round 1, kept for round 2
  axioms,     \* the list of axioms handed to the decision procedures
  expr,       \* the expression handed to eval
  out,        \* the record of the last call of a procedure and what it returned
  vars_list,  \* the list handed to all_valuations
  gens        \* the live generators all_valuations returned, each with what it yielded

pvars == <<src, tokens, pos, stack, ret, status, err, result, round, first>>
dvars == <<axioms, expr, out>>
gvars == <<vars_list, gens>>
vars == <<pvars, dvars, gvars>>

-----------------------------------------------------------------------------
(* Bounds of the model. *)

\* the number of variable names the axioms and propositions are built from
NumVars == 2
\* the longest list of axioms
MaxAxioms == 2
\* the largest max_models a caller passes to is_satisfiable
MaxModels == 3
\* the longest input string of parse, counted in lexemes
MaxLen == 3
\* the longest operator chain handed to parse, counted in operands
MaxChain == 3
\* the most generators of all_valuations alive at once
MaxGens == 2

-----------------------------------------------------------------------------
(* Characters and strings. *)

Letters == {"A", "B", "C", "D", "E"}
Digits == {"1"}
Spaces == {" "}
IsIdentStart(c) == c \in Letters \cup {"_"}
IsIdentChar(c) == c \in Letters \cup Digits \cup {"_"}

\* ord(c), for the characters a variable name is made of
Code(c) ==
  CASE c = "1" -> 49 [] c = "A" -> 65 [] c = "B" -> 66 [] c = "C" -> 67
    [] c = "D" -> 68 [] c = "E" -> 69 [] c = "_" -> 95

\* Python's s < t on strings
RECURSIVE StrLess(_, _)
StrLess(s, t) ==
  IF t = <<>> THEN FALSE
  ELSE IF s = <<>> THEN TRUE
  ELSE IF Code(Head(s)) # Code(Head(t)) THEN Code(Head(s)) < Code(Head(t))
  ELSE StrLess(Tail(s), Tail(t))

RECURSIVE Flatten(_)
Flatten(ss) == IF ss = <<>> THEN <<>> ELSE Head(ss) \o Flatten(Tail(ss))

-----------------------------------------------------------------------------
(* The expression classes. *)

Var(n) == [op |-> "Var", name |-> n]
Not(c) == [op |-> "Not", child |-> c]
And(l, r) == [op |-> "And", left |-> l, right |-> r]
Or(l, r) == [op |-> "Or", left |-> l, right |-> r]
Implies(l, r) == [op |-> "Implies", left |-> l, right |-> r]
Iff(l, r) == [op |-> "Iff", left |-> l, right |-> r]
\* no expression: the value of a local that is not yet bound
NoExpr == [op |-> "None"]

\* the mutant of ReprOp: Implies.__repr__ copied to Iff with its '->' left in
ReprOp_IffAsImplies(op) ==
  CASE op = "And" -> <<"&">>
    [] op = "Or" -> <<"|">>
    [] op = "Implies" -> <<"-", ">">>
    [] op = "Iff" -> <<"-", ">">>

\* the operator a binary expression class prints between its children
ReprOp(op) ==
  CASE op = "And" -> <<"&">>
    [] op = "Or" -> <<"|">>
    [] op = "Implies" -> <<"-", ">">>
    [] op = "Iff" -> <<"<", "-", ">">>

\* __repr__: the fully parenthesized text of an expression
RECURSIVE Render(_)
Render(e) ==
  CASE e.op = "Var" -> e.name
    [] e.op = "Not" -> <<"(", "~">> \o Render(e.child) \o <<")">>
    [] OTHER -> <<"(">> \o Render(e.left) \o <<" ">> \o ReprOp(e.op)
                  \o <<" ">> \o Render(e.right) \o <<")">>

-----------------------------------------------------------------------------
(* eval and vars. *)

Range(f) == {f[i] : i \in DOMAIN f}

\* bool(b), as the text of the three outcomes of eval: a boolean, or KeyError
\* raised by valuation[self.name]
PyBool(b) == IF b THEN "True" ELSE "False"

\* left and right: the right child is evaluated only when the left is true
AndEval(l, r) == IF l = "True" THEN r ELSE l

\* left or right: the right child is evaluated only when the left is false
OrEval(l, r) == IF l = "False" THEN r ELSE l

\* (not left) or right: the right child is evaluated only when the left is true
ImpliesEval(l, r) == IF l = "True" THEN r ELSE IF l = "False" THEN "True" ELSE l

\* left == right: both children are evaluated, the left one first
IffEval(l, r) ==
  IF l = "KeyError" \/ r = "KeyError" THEN "KeyError" ELSE PyBool(l = r)

\* Expr.eval
RECURSIVE Eval(_, _)
Eval(e, v) ==
  CASE e.op = "Var" -> IF e.name \in DOMAIN v THEN PyBool(v[e.name]) ELSE "KeyError"
    [] e.op = "Not" ->
         LET c == Eval(e.child, v) IN
         IF c = "KeyError" THEN c ELSE PyBool(c = "False")
    [] e.op = "And" -> AndEval(Eval(e.left, v), Eval(e.right, v))
    [] e.op = "Or" -> OrEval(Eval(e.left, v), Eval(e.right, v))
    [] e.op = "Implies" -> ImpliesEval(Eval(e.left, v), Eval(e.right, v))
    [] e.op = "Iff" -> IffEval(Eval(e.left, v), Eval(e.right, v))

\* Expr.vars
RECURSIVE FreeVars(_)
FreeVars(e) ==
  CASE e.op = "Var" -> {e.name}
    [] e.op = "Not" -> FreeVars(e.child)
    [] OTHER -> FreeVars(e.left) \cup FreeVars(e.right)

\* vars_set |= a.vars() for a in exprs
RECURSIVE VarsOfAll(_)
VarsOfAll(exprs) ==
  IF exprs = <<>> THEN {} ELSE FreeVars(Head(exprs)) \cup VarsOfAll(Tail(exprs))

\* sorted(vars_set)
RECURSIVE Sorted(_)
Sorted(S) ==
  IF S = {} THEN <<>>
  ELSE LET m == CHOOSE x \in S : \A y \in S \ {x} : StrLess(x, y)
       IN <<m>> \o Sorted(S \ {m})

\* all(a.eval(v) for a in axioms): stops at the first axiom that is not true
RECURSIVE AllEval(_, _)
AllEval(axs, v) ==
  IF axs = <<>> THEN "True"
  ELSE LET r == Eval(Head(axs), v) IN
       IF r = "True" THEN AllEval(Tail(axs), v) ELSE r

-----------------------------------------------------------------------------
(* all_valuations. *)

\* itertools.product([False, True], repeat=n): its first tuple
ProductFirst(n) == [i \in 1..n |-> FALSE]

ProductLast(bits) == \A i \in DOMAIN bits : bits[i]

\* the mutant of ProductNext: the leftmost element advancing on every iteration
ProductNext_leftmost(bits) ==
  LET k == CHOOSE i \in DOMAIN bits : ~bits[i] /\ \A j \in DOMAIN bits : j < i => bits[j]
  IN [i \in DOMAIN bits |-> IF i > k THEN bits[i] ELSE i = k]

\* itertools.product: the tuple after bits, the rightmost element advancing on
\* every iteration
ProductNext(bits) ==
  LET k == CHOOSE i \in DOMAIN bits : ~bits[i] /\ \A j \in DOMAIN bits : j > i => bits[j]
  IN [i \in DOMAIN bits |-> IF i < k THEN bits[i] ELSE i = k]

\* dict(zip(vars_list, bits)): a later pair of a repeated name replaces the earlier
Zip(names, bits) ==
  [x \in Range(names) |->
     bits[CHOOSE i \in DOMAIN names : names[i] = x /\ \A j \in DOMAIN names : names[j] = x => j <= i]]

\* list(all_valuations(names)), from the tuple bits on
RECURSIVE ValuationsFrom(_, _)
ValuationsFrom(names, bits) ==
  <<Zip(names, bits)>>
  \o (IF ProductLast(bits) THEN <<>> ELSE ValuationsFrom(names, ProductNext(bits)))

AllValuations(names) == ValuationsFrom(names, ProductFirst(Len(names)))

-----------------------------------------------------------------------------
(* The decision procedures. *)

\* entails: max_models=1000000
EntailsMaxModels == 1000000

\* the mutant of CapReached: > for >=
CapReached_gt(models, max_models) == Len(models) > max_models

\* is_satisfiable: if len(models) >= max_models: break
CapReached(models, max_models) == Len(models) >= max_models

\* is_satisfiable: the loop over all_valuations(vars_list) from the tuple bits
\* on; pulled counts the valuations taken from the generator
RECURSIVE SatLoop(_, _, _, _, _, _)
SatLoop(axs, names, bits, max_models, models, pulled) ==
  LET v == Zip(names, bits)
      q == AllEval(axs, v)
      found == IF q = "True" THEN Append(models, v) ELSE models
  IN
  IF q = "KeyError"
    THEN [raised |-> TRUE, sat |-> FALSE, models |-> <<>>, pulled |-> pulled + 1]
  ELSE IF (q = "True" /\ CapReached(found, max_models)) \/ ProductLast(bits)
    THEN [raised |-> FALSE, sat |-> Len(found) > 0, models |-> found,
          pulled |-> pulled + 1]
  ELSE SatLoop(axs, names, ProductNext(bits), max_models, found, pulled + 1)

IsSatisfiable(axs, max_models) ==
  LET names == Sorted(VarsOfAll(axs)) IN
  SatLoop(axs, names, ProductFirst(Len(names)), max_models, <<>>, 0)

\* the mutant of EntailsRefuted: the 'not' before proposition.eval(v) left out
EntailsRefuted_no_not(q, p) == q = "True" /\ p = "True"

\* entails: if all(...) and not proposition.eval(v)
EntailsRefuted(q, p) == q = "True" /\ p = "False"

\* entails: the loop over all_valuations(vars_list)
RECURSIVE EntailsLoop(_, _, _, _)
EntailsLoop(axs, prop, names, bits) ==
  LET v == Zip(names, bits)
      q == AllEval(axs, v)
      p == IF q = "True" THEN Eval(prop, v) ELSE "False"
  IN
  IF q = "KeyError" \/ p = "KeyError" THEN [raised |-> TRUE, result |-> FALSE]
  ELSE IF EntailsRefuted(q, p) THEN [raised |-> FALSE, result |-> FALSE]
  ELSE IF ProductLast(bits) THEN [raised |-> FALSE, result |-> TRUE]
  ELSE EntailsLoop(axs, prop, names, ProductNext(bits))

\* the mutant of EntailsUnsat: unsatisfiable axioms entail nothing
EntailsUnsat_false == FALSE

\* entails: if not sat: return True
EntailsUnsat == TRUE

Entails(axs, prop) ==
  LET s == IsSatisfiable(axs, EntailsMaxModels)
      names == Sorted(VarsOfAll(axs \o <<prop>>))
  IN
  IF s.raised THEN [raised |-> TRUE, result |-> FALSE]
  ELSE IF ~s.sat THEN [raised |-> FALSE, result |-> EntailsUnsat]
  ELSE EntailsLoop(axs, prop, names, ProductFirst(Len(names)))

\* the mutant of CounterexampleHit: the 'not' before proposition.eval(v) left out
CounterexampleHit_no_not(q, p) == q = "True" /\ p = "True"

\* find_counterexample: if all(...) and not proposition.eval(v)
CounterexampleHit(q, p) == q = "True" /\ p = "False"

\* find_counterexample: the loop over all_valuations(vars_list); found FALSE
\* is the return of None
RECURSIVE CounterexampleLoop(_, _, _, _)
CounterexampleLoop(axs, prop, names, bits) ==
  LET v == Zip(names, bits)
      q == AllEval(axs, v)
      p == IF q = "True" THEN Eval(prop, v) ELSE "False"
  IN
  IF q = "KeyError" \/ p = "KeyError"
    THEN [raised |-> TRUE, found |-> FALSE, valuation |-> <<>>]
  ELSE IF CounterexampleHit(q, p)
    THEN [raised |-> FALSE, found |-> TRUE, valuation |-> v]
  ELSE IF ProductLast(bits)
    THEN [raised |-> FALSE, found |-> FALSE, valuation |-> <<>>]
  ELSE CounterexampleLoop(axs, prop, names, ProductNext(bits))

FindCounterexample(axs, prop) ==
  LET names == Sorted(VarsOfAll(axs \o <<prop>>)) IN
  CounterexampleLoop(axs, prop, names, ProductFirst(Len(names)))

-----------------------------------------------------------------------------
(* The lexer. *)

LPAREN == <<"(">>
RPAREN == <<")">>
TILDE == <<"~">>
AMP == <<"&">>
BAR == <<"|">>
ARROW == <<"-", ">">>
DARROW == <<"<", "-", ">">>
\* peek() and pop() at the end of the tokens: Python's None
NoneTok == <<>>

StartsWith(s, i, t) ==
  /\ i + Len(t) - 1 <= Len(s)
  /\ SubSeq(s, i, i + Len(t) - 1) = t

\* \s* : the first index at or after i that holds no white space
RECURSIVE SkipSpace(_, _)
SkipSpace(s, i) ==
  IF i <= Len(s) /\ s[i] \in Spaces THEN SkipSpace(s, i + 1) ELSE i

\* [A-Za-z0-9_]* : the last index of the identifier that starts at i
RECURSIVE IdentEnd(_, _)
IdentEnd(s, i) ==
  IF i + 1 <= Len(s) /\ IsIdentChar(s[i + 1]) THEN IdentEnd(s, i + 1) ELSE i

\* _TOKEN_RE.findall(s) from index i on: the alternatives in the order of the
\* regular expression
RECURSIVE FindAll(_, _)
FindAll(s, i) ==
  LET j == SkipSpace(s, i) IN
  IF j > Len(s) THEN <<>>
  ELSE IF StartsWith(s, j, DARROW) THEN <<DARROW>> \o FindAll(s, j + 3)
  ELSE IF StartsWith(s, j, ARROW) THEN <<ARROW>> \o FindAll(s, j + 2)
  ELSE IF s[j] \in {"(", ")", "~", "&", "|"} THEN <<<<s[j]>>>> \o FindAll(s, j + 1)
  ELSE IF IsIdentStart(s[j])
    THEN LET e == IdentEnd(s, j) IN <<SubSeq(s, j, e)>> \o FindAll(s, e + 1)
  ELSE <<<<s[j]>>>> \o FindAll(s, j + 1)

tokenize(s) == FindAll(s, 1)

-----------------------------------------------------------------------------
(* The Parser: one frame of the stack per active call of a method. *)

Frame(fn) == [fn |-> fn, pc |-> "start", left |-> NoExpr]
Top == stack[Len(stack)]
Callers == SubSeq(stack, 1, Len(stack) - 1)

\* Parser.peek
peek == IF pos < Len(tokens) THEN tokens[pos + 1] ELSE NoneTok
\* Parser.pop: the position after it
PopPos == IF peek # NoneTok THEN pos + 1 ELSE pos

\* the running method calls fn and waits for it at pc, its local left being l
Call(fn, pc, l) ==
  /\ stack' = Append(Callers, [Top EXCEPT !.pc = pc, !.left = l]) \o <<Frame(fn)>>
  /\ UNCHANGED <<ret, status, err, result>>

\* the running method returns e to its caller
Return(e) ==
  /\ stack' = Callers
  /\ ret' = e
  /\ UNCHANGED <<status, err, result>>

\* raise ParserError: no method catches it, the whole stack unwinds
Raise(kind) ==
  /\ stack' = <<>>
  /\ status' = "failed"
  /\ err' = kind
  /\ UNCHANGED <<ret, result>>

Running(fn) == status = "running" /\ stack # <<>> /\ Top.fn = fn

\* parse(s): tokenize, reject the empty token list, build the Parser
parse ==
  /\ status = "init"
  /\ tokens' = tokenize(src)
  /\ pos' = 0
  /\ IF tokens' = <<>>
       THEN /\ status' = "failed"
            /\ err' = "EmptyExpression"
            /\ stack' = <<>>
       ELSE /\ status' = "running"
            /\ err' = "none"
            /\ stack' = <<Frame("Parser_parse")>>
  /\ UNCHANGED <<src, ret, result, round, first>>
  /\ UNCHANGED <<dvars, gvars>>

\* the mutant of Parser_parse: the left-over token is not looked for
Parser_parse_no_check ==
  /\ Running("Parser_parse")
  /\ \/ /\ Top.pc = "start"
        /\ Call("parse_iff", "expr", NoExpr)
        /\ UNCHANGED pos
     \/ /\ Top.pc = "expr"
        /\ stack' = <<>>
        /\ status' = "ok"
        /\ result' = ret
        /\ UNCHANGED <<ret, err>>
        /\ UNCHANGED pos
  /\ UNCHANGED <<src, tokens, round, first>>
  /\ UNCHANGED <<dvars, gvars>>

\* Parser.parse: the top-level expression, then no token may be left
Parser_parse ==
  /\ Running("Parser_parse")
  /\ \/ /\ Top.pc = "start"
        /\ Call("parse_iff", "expr", NoExpr)
        /\ UNCHANGED pos
     \/ /\ Top.pc = "expr"
        /\ IF peek # NoneTok
             THEN Raise("UnexpectedToken")
             ELSE /\ stack' = <<>>
                  /\ status' = "ok"
                  /\ result' = ret
                  /\ UNCHANGED <<ret, err>>
        /\ UNCHANGED pos
  /\ UNCHANGED <<src, tokens, round, first>>
  /\ UNCHANGED <<dvars, gvars>>

\* iff ::= imp ('<->' imp)*
parse_iff ==
  /\ Running("parse_iff")
  /\ \/ /\ Top.pc = "start"
        /\ Call("parse_imp", "left", NoExpr)
        /\ UNCHANGED pos
     \/ /\ Top.pc \in {"left", "right"}
        /\ LET left == IF Top.pc = "left" THEN ret ELSE Iff(Top.left, ret) IN
           IF peek = DARROW
             THEN /\ pos' = PopPos
                  /\ Call("parse_imp", "right", left)
             ELSE /\ Return(left)
                  /\ UNCHANGED pos
  /\ UNCHANGED <<src, tokens, round, first>>
  /\ UNCHANGED <<dvars, gvars>>

\* the mutant of parse_imp: '->' folded to the left like the other operators
parse_imp_left ==
  /\ Running("parse_imp")
  /\ \/ /\ Top.pc = "start"
        /\ Call("parse_or", "left", NoExpr)
        /\ UNCHANGED pos
     \/ /\ Top.pc \in {"left", "right"}
        /\ LET left == IF Top.pc = "left" THEN ret ELSE Implies(Top.left, ret) IN
           IF peek = ARROW
             THEN /\ pos' = PopPos
                  /\ Call("parse_or", "right", left)
             ELSE /\ Return(left)
                  /\ UNCHANGED pos
  /\ UNCHANGED <<src, tokens, round, first>>
  /\ UNCHANGED <<dvars, gvars>>

\* imp ::= or_expr ('->' imp)?
parse_imp ==
  /\ Running("parse_imp")
  /\ \/ /\ Top.pc = "start"
        /\ Call("parse_or", "left", NoExpr)
        /\ UNCHANGED pos
     \/ /\ Top.pc = "left"
        /\ IF peek = ARROW
             THEN /\ pos' = PopPos
                  /\ Call("parse_imp", "right", ret)
             ELSE /\ Return(ret)
                  /\ UNCHANGED pos
     \/ /\ Top.pc = "right"
        /\ Return(Implies(Top.left, ret))
        /\ UNCHANGED pos
  /\ UNCHANGED <<src, tokens, round, first>>
  /\ UNCHANGED <<dvars, gvars>>

\* or_expr ::= and_expr ('|' and_expr)*
parse_or ==
  /\ Running("parse_or")
  /\ \/ /\ Top.pc = "start"
        /\ Call("parse_and", "left", NoExpr)
        /\ UNCHANGED pos
     \/ /\ Top.pc \in {"left", "right"}
        /\ LET left == IF Top.pc = "left" THEN ret ELSE Or(Top.left, ret) IN
           IF peek = BAR
             THEN /\ pos' = PopPos
                  /\ Call("parse_and", "right", left)
             ELSE /\ Return(left)
                  /\ UNCHANGED pos
  /\ UNCHANGED <<src, tokens, round, first>>
  /\ UNCHANGED <<dvars, gvars>>

\* and_expr ::= not_expr ('&' not_expr)*
parse_and ==
  /\ Running("parse_and")
  /\ \/ /\ Top.pc = "start"
        /\ Call("parse_not", "left", NoExpr)
        /\ UNCHANGED pos
     \/ /\ Top.pc \in {"left", "right"}
        /\ LET left == IF Top.pc = "left" THEN ret ELSE And(Top.left, ret) IN
           IF peek = AMP
             THEN /\ pos' = PopPos
                  /\ Call("parse_not", "right", left)
             ELSE /\ Return(left)
                  /\ UNCHANGED pos
  /\ UNCHANGED <<src, tokens, round, first>>
  /\ UNCHANGED <<dvars, gvars>>

\* not_expr ::= '~' not_expr | atom
parse_not ==
  /\ Running("parse_not")
  /\ \/ /\ Top.pc = "start"
        /\ IF peek = TILDE
             THEN /\ pos' = PopPos
                  /\ Call("parse_not", "child", NoExpr)
             ELSE /\ Call("parse_atom", "atom", NoExpr)
                  /\ UNCHANGED pos
     \/ /\ Top.pc = "child"
        /\ Return(Not(ret))
        /\ UNCHANGED pos
     \/ /\ Top.pc = "atom"
        /\ Return(ret)
        /\ UNCHANGED pos
  /\ UNCHANGED <<src, tokens, round, first>>
  /\ UNCHANGED <<dvars, gvars>>

\* the mutant of parse_atom: the input ending before ')' reported as the end of
\* the input
parse_atom_eof ==
  /\ Running("parse_atom")
  /\ \/ /\ Top.pc = "start"
        /\ IF peek = NoneTok
             THEN Raise("UnexpectedEndOfInput") /\ UNCHANGED pos
             ELSE IF peek = LPAREN
               THEN pos' = PopPos /\ Call("parse_iff", "paren", NoExpr)
               ELSE IF IsIdentStart(peek[1])
                 THEN pos' = PopPos /\ Return(Var(peek))
                 ELSE Raise("UnexpectedToken") /\ UNCHANGED pos
     \/ /\ Top.pc = "paren"
        /\ pos' = PopPos
        /\ IF peek = NoneTok
             THEN Raise("UnexpectedEndOfInput")
             ELSE IF peek # RPAREN
               THEN Raise("UnmatchedParenthesis")
               ELSE Return(ret)
  /\ UNCHANGED <<src, tokens, round, first>>
  /\ UNCHANGED <<dvars, gvars>>

\* atom ::= VAR | '(' iff ')'
parse_atom ==
  /\ Running("parse_atom")
  /\ \/ /\ Top.pc = "start"
        /\ IF peek = NoneTok
             THEN Raise("UnexpectedEndOfInput") /\ UNCHANGED pos
             ELSE IF peek = LPAREN
               THEN pos' = PopPos /\ Call("parse_iff", "paren", NoExpr)
               ELSE IF IsIdentStart(peek[1])
                 THEN pos' = PopPos /\ Return(Var(peek))
                 ELSE Raise("UnexpectedToken") /\ UNCHANGED pos
     \/ /\ Top.pc = "paren"
        /\ pos' = PopPos
        /\ IF peek # RPAREN
             THEN Raise("UnmatchedParenthesis")
             ELSE Return(ret)
  /\ UNCHANGED <<src, tokens, round, first>>
  /\ UNCHANGED <<dvars, gvars>>

\* repr() of the expression parse returned is handed to parse again
Reparse ==
  /\ status = "ok"
  /\ round = 1
  /\ round' = 2
  /\ first' = result
  /\ src' = Render(result)
  /\ status' = "init"
  /\ tokens' = <<>>
  /\ pos' = 0
  /\ result' = NoExpr
  /\ ret' = NoExpr
  /\ UNCHANGED <<stack, err>>
  /\ UNCHANGED <<dvars, gvars>>

-----------------------------------------------------------------------------
(* The strings handed to parse. *)

SeqsUpTo(S, n) == UNION {[1..k -> S] : k \in 0..n}

\* the pieces the short input strings are made of
Lexemes ==
  {<<"A">>, <<"1">>, <<" ">>, <<"<">>, LPAREN, RPAREN, TILDE, AMP, BAR, ARROW}
ShortSources == {Flatten(ls) : ls \in SeqsUpTo(Lexemes, MaxLen)}

BinOpTokens == {AMP, BAR, ARROW, DARROW}
ChainNames == <<"A", "B", "C", "D", "E">>

\* the variants of a chain of k operands: the operand that carries a '~' (0:
\* none) and the operands from..to that stand in parentheses (0, 0: none)
ChainVariants(k) ==
  {v \in [neg : 0..k, from : 0..k, to : 0..k] :
     \/ v.from = 0 /\ v.to = 0
     \/ 1 <= v.from /\ v.from < v.to}

\* operand i of the chain x1 ops[1] x2 ... xk in variant v, with the operator
\* that follows it
ChainPiece(k, ops, v, i) ==
  (IF v.neg = i THEN TILDE ELSE <<>>)
  \o (IF v.from = i THEN LPAREN ELSE <<>>)
  \o <<ChainNames[i]>>
  \o (IF v.to = i THEN RPAREN ELSE <<>>)
  \o (IF i < k THEN ops[i] ELSE <<>>)

ChainsOf(k) ==
  {Flatten([i \in 1..k |-> ChainPiece(k, ops, v, i)]) :
     ops \in [1..(k - 1) -> BinOpTokens], v \in ChainVariants(k)}

ChainSources == UNION {ChainsOf(k) : k \in 1..MaxChain}

Sources == ShortSources \cup ChainSources

ParserIdle ==
  /\ src = <<>> /\ tokens = <<>> /\ pos = 0 /\ stack = <<>> /\ ret = NoExpr
  /\ status = "idle" /\ err = "none" /\ result = NoExpr /\ round = 0
  /\ first = NoExpr
DecideIdle == axioms = <<>> /\ expr = NoExpr /\ out = [op |-> "none"]
GenIdle == vars_list = <<>> /\ gens = <<>>

InitParse ==
  /\ src \in Sources
  /\ tokens = <<>> /\ pos = 0 /\ stack = <<>> /\ ret = NoExpr
  /\ status = "init" /\ err = "none" /\ result = NoExpr /\ round = 1
  /\ first = NoExpr
  /\ DecideIdle /\ GenIdle

NextParse ==
  \/ parse
  \/ Parser_parse
  \/ parse_iff
  \/ parse_imp
  \/ parse_or
  \/ parse_and
  \/ parse_not
  \/ parse_atom
  \/ Reparse

SpecParse == InitParse /\ [][NextParse]_vars

-----------------------------------------------------------------------------
(* The grammar, read as a definition: the tree a token sequence denotes.    *)
(* A binary operator splits the sequence where it stands outside every     *)
(* parenthesis; the operator that binds loosest splits first, at its last   *)
(* occurrence when it folds left and at its first when it folds right.      *)

Mk(op, l, r) == [op |-> op, left |-> l, right |-> r]

\* the number of '(' still open before token i
RECURSIVE DepthBefore(_, _)
DepthBefore(toks, i) ==
  IF i <= 1 THEN 0
  ELSE DepthBefore(toks, i - 1)
       + (IF toks[i - 1] = LPAREN THEN 1 ELSE IF toks[i - 1] = RPAREN THEN -1 ELSE 0)

TopLevel(toks, t) ==
  {i \in 1..Len(toks) : toks[i] = t /\ DepthBefore(toks, i) = 0}

SetMax(S) == CHOOSE x \in S : \A y \in S : y <= x
SetMin(S) == CHOOSE x \in S : \A y \in S : x <= y

RECURSIVE GrammarTree(_)
GrammarTree(toks) ==
  LET n == Len(toks)
      Split(op, k) ==
        LET l == GrammarTree(SubSeq(toks, 1, k - 1))
            r == GrammarTree(SubSeq(toks, k + 1, n))
        IN IF l = NoExpr \/ r = NoExpr THEN NoExpr ELSE Mk(op, l, r)
  IN
  IF n = 0 THEN NoExpr
  ELSE IF TopLevel(toks, DARROW) # {} THEN Split("Iff", SetMax(TopLevel(toks, DARROW)))
  ELSE IF TopLevel(toks, ARROW) # {} THEN Split("Implies", SetMin(TopLevel(toks, ARROW)))
  ELSE IF TopLevel(toks, BAR) # {} THEN Split("Or", SetMax(TopLevel(toks, BAR)))
  ELSE IF TopLevel(toks, AMP) # {} THEN Split("And", SetMax(TopLevel(toks, AMP)))
  ELSE IF toks[1] = TILDE
    THEN LET c == GrammarTree(Tail(toks)) IN IF c = NoExpr THEN NoExpr ELSE Not(c)
  ELSE IF toks[1] = LPAREN /\ toks[n] = RPAREN /\ n >= 2
    THEN GrammarTree(SubSeq(toks, 2, n - 1))
  ELSE IF n = 1 /\ IsIdentStart(toks[1][1]) THEN Var(toks[1])
  ELSE NoExpr

\* the number of '(' that no ')' closes
RECURSIVE OpenLeft(_, _)
OpenLeft(toks, depth) ==
  IF toks = <<>> THEN depth
  ELSE IF Head(toks) = LPAREN THEN OpenLeft(Tail(toks), depth + 1)
  ELSE IF Head(toks) = RPAREN /\ depth > 0 THEN OpenLeft(Tail(toks), depth - 1)
  ELSE OpenLeft(Tail(toks), depth)

HasUnmatchedOpen(toks) == OpenLeft(toks, 0) > 0

Finished == status \in {"ok", "failed"}

-----------------------------------------------------------------------------
(* The claims about parse. *)

\* C5: parse returns an Expression only when the token sequence is not empty
\* and the top-level expression consumes every token; an empty or
\* white-space-only input fails with the empty-expression error; a token left
\* after a complete top-level expression fails with the unexpected-token error.
C5_ParseConsumesEveryToken ==
  /\ status = "ok" =>
       /\ tokens # <<>>
       /\ pos = Len(tokens)
       /\ result # NoExpr
  /\ (Finished /\ \A i \in 1..Len(src) : src[i] \in Spaces) =>
       /\ status = "failed"
       /\ err = "EmptyExpression"
       /\ result = NoExpr
  /\ Finished =>
       \A j \in 1..(Len(tokens) - 1) :
         (GrammarTree(SubSeq(tokens, 1, j)) # NoExpr /\ tokens[j + 1] \notin BinOpTokens) =>
           /\ status = "failed"
           /\ err = "UnexpectedToken"
           /\ pos = j
           /\ result = NoExpr

\* a complete expression followed by a left-over token was rejected
C5_Witness ==
  /\ round = 1
  /\ status = "failed"
  /\ err = "UnexpectedToken"
  /\ pos >= 1
  /\ pos < Len(tokens)
  /\ GrammarTree(SubSeq(tokens, 1, pos)) # NoExpr

C7_RoundTrip ==
  (round = 2 /\ Finished) =>
    /\ status = "ok"
    /\ result = first

\* the tree of '~A <-> ...' went through repr() and parse
C7_Witness ==
  /\ round = 2
  /\ status = "ok"
  /\ first.op = "Iff"
  /\ first.left.op = "Not"
  /\ Len(tokens) > 5

\* the tree parse returns is the one the precedence and associativity rules
\* give, and every token was consumed
C8_Tree ==
  /\ status = "ok" =>
       /\ result = GrammarTree(tokens)
       /\ pos = Len(tokens)
  /\ (Finished /\ GrammarTree(tokens) # NoExpr) => status = "ok"

\* a step of a running Parser leaves the position or moves it one token ahead
C8_Step ==
  status = "running" =>
    \/ pos' = pos
    \/ pos' = pos + 1 /\ pos < Len(tokens)

\* C8: '~' binds tighter than '&', '&' than '|', '|' than '->', '->' than
\* '<->'; chains of '&', '|' and '<->' fold left and chains of '->' fold right;
\* the position advances by one per consumed token and never moves backwards.
C8_PrecedenceAndPosition == []C8_Tree /\ [][C8_Step]_vars

\* 'A -> B -> C' was parsed as A -> (B -> C)
C8_Witness ==
  /\ round = 1
  /\ status = "ok"
  /\ result = Implies(Var(<<"A">>), Implies(Var(<<"B">>), Var(<<"C">>)))

-----------------------------------------------------------------------------
(* The calls of the decision procedures and of eval. *)

\* the variable names the expressions are built from, not in sorted order
VarNames == <<<<"B">>, <<"A">>, <<"A", "1">>, <<"C">>>>
Names == {VarNames[i] : i \in 1..NumVars}
BinOps == {"And", "Or", "Implies", "Iff"}

\* the axioms and propositions: the variables, their negations, every binary
\* operator on two neighbouring variables, a contradiction and a tautology
Pool ==
  {Var(x) : x \in Names}
  \cup {Not(Var(x)) : x \in Names}
  \cup {Mk(op, Var(VarNames[i]), Var(VarNames[i + 1])) :
          op \in BinOps, i \in 1..(NumVars - 1)}
  \cup {And(Var(VarNames[1]), Not(Var(VarNames[1]))),
        Or(Var(VarNames[1]), Not(Var(VarNames[1])))}

\* the expressions one level deeper than those of S
Grow(S) ==
  S \cup {Not(e) : e \in S} \cup {Mk(op, l, r) : op \in BinOps, l \in S, r \in S}

\* the expressions handed to eval: every tree of depth two at most
EvalExprs == Grow(Grow({Var(x) : x \in Names}))

\* the valuations handed to eval: total or not
PartialValuations == UNION {[S -> BOOLEAN] : S \in SUBSET Names}

InitDecide ==
  /\ axioms \in SeqsUpTo(Pool, MaxAxioms)
  /\ expr = NoExpr
  /\ out = [op |-> "none"]
  /\ ParserIdle /\ GenIdle

is_satisfiable ==
  /\ out.op = "none"
  /\ \E max_models \in 0..MaxModels :
       LET r == IsSatisfiable(axioms, max_models) IN
       out' = [op |-> "is_satisfiable", max_models |-> max_models,
               raised |-> r.raised, sat |-> r.sat, models |-> r.models,
               pulled |-> r.pulled]
  /\ UNCHANGED <<axioms, expr>>
  /\ UNCHANGED <<pvars, gvars>>

entails ==
  /\ out.op = "none"
  /\ \E proposition \in Pool :
       LET r == Entails(axioms, proposition) IN
       out' = [op |-> "entails", proposition |-> proposition,
               raised |-> r.raised, result |-> r.result]
  /\ UNCHANGED <<axioms, expr>>
  /\ UNCHANGED <<pvars, gvars>>

find_counterexample ==
  /\ out.op = "none"
  /\ \E proposition \in Pool :
       LET r == FindCounterexample(axioms, proposition) IN
       out' = [op |-> "find_counterexample", proposition |-> proposition,
               raised |-> r.raised, found |-> r.found, valuation |-> r.valuation]
  /\ UNCHANGED <<axioms, expr>>
  /\ UNCHANGED <<pvars, gvars>>

NextDecide ==
  \/ is_satisfiable
  \/ entails
  \/ find_counterexample

SpecDecide == InitDecide /\ [][NextDecide]_vars

InitEval ==
  /\ expr \in EvalExprs
  /\ axioms = <<>>
  /\ out = [op |-> "none"]
  /\ ParserIdle /\ GenIdle

eval ==
  /\ out.op = "none"
  /\ \E valuation \in PartialValuations :
       out' = [op |-> "eval", valuation |-> valuation, result |-> Eval(expr, valuation)]
  /\ UNCHANGED <<axioms, expr>>
  /\ UNCHANGED <<pvars, gvars>>

NextEval == eval

SpecEval == InitEval /\ [][NextEval]_vars

-----------------------------------------------------------------------------
(* The generators of all_valuations. *)

\* the lists without a repeated name
NameLists == {l \in SeqsUpTo(Names, NumVars) : Cardinality(Range(l)) = Len(l)}

InitGen ==
  /\ vars_list \in NameLists
  /\ gens = <<>>
  /\ ParserIdle /\ DecideIdle

\* all_valuations(vars_list): a new generator, which has not run yet
all_valuations ==
  /\ Len(gens) < MaxGens
  /\ gens' = Append(gens, [state |-> "created", bits |-> ProductFirst(Len(vars_list)),
                           yielded |-> <<>>])
  /\ UNCHANGED vars_list
  /\ UNCHANGED <<pvars, dvars>>

\* next() on generator g: it runs to its next yield, or to its end
next_valuation ==
  /\ \E g \in DOMAIN gens :
       /\ gens[g].state # "done"
       /\ LET gen == gens[g]
              bits == IF gen.state = "created" THEN gen.bits ELSE ProductNext(gen.bits)
          IN
          IF gen.state = "suspended" /\ ProductLast(gen.bits)
            THEN gens' = [gens EXCEPT ![g].state = "done"]
            ELSE gens' = [gens EXCEPT ![g] =
                   [state |-> "suspended", bits |-> bits,
                    yielded |-> Append(gen.yielded, Zip(vars_list, bits))]]
  /\ UNCHANGED vars_list
  /\ UNCHANGED <<pvars, dvars>>

NextGen ==
  \/ all_valuations
  \/ next_valuation

SpecGen == InitGen /\ [][NextGen]_vars

-----------------------------------------------------------------------------
(* Truth in a total valuation, as classical logic defines it. *)

RECURSIVE Holds(_, _)
Holds(e, v) ==
  CASE e.op = "Var" -> v[e.name]
    [] e.op = "Not" -> ~Holds(e.child, v)
    [] e.op = "And" -> Holds(e.left, v) /\ Holds(e.right, v)
    [] e.op = "Or" -> Holds(e.left, v) \/ Holds(e.right, v)
    [] e.op = "Implies" -> (Holds(e.left, v) => Holds(e.right, v))
    [] e.op = "Iff" -> (Holds(e.left, v) <=> Holds(e.right, v))

AllHold(axs, v) == \A i \in DOMAIN axs : Holds(axs[i], v)

\* whether some total valuation over the axioms' variables makes them all true
Satisfiable(axs) == \E v \in [VarsOfAll(axs) -> BOOLEAN] : AllHold(axs, v)

Min(a, b) == IF a <= b THEN a ELSE b

-----------------------------------------------------------------------------
(* The claims about the decision procedures. *)

\* C1: entails(axioms, proposition) is true iff every total valuation over
\* the variables of the axioms and the proposition that makes every axiom
\* true makes the proposition true; it is true for every proposition when no
\* valuation makes all axioms true.
C1_EntailsIsEntailment ==
  out.op = "entails" =>
    /\ ~out.raised
    /\ out.result =
         (\A v \in [VarsOfAll(axioms \o <<out.proposition>>) -> BOOLEAN] :
            AllHold(axioms, v) => Holds(out.proposition, v))
    /\ ~Satisfiable(axioms) => out.result

\* unsatisfiable axioms entailed a proposition over a variable of its own
C1_Witness ==
  /\ out.op = "entails"
  /\ out.result
  /\ ~Satisfiable(axioms)
  /\ ~(FreeVars(out.proposition) \subseteq VarsOfAll(axioms))

\* the first valuation, in the order of all_valuations over the sorted
\* variables, that makes every axiom true and the proposition false
FirstFalsifying(axs, prop) ==
  LET all == AllValuations(Sorted(VarsOfAll(axs \o <<prop>>)))
      hits == {k \in DOMAIN all : AllHold(axs, all[k]) /\ ~Holds(prop, all[k])}
  IN all[SetMin(hits)]

\* C2: entails is true iff find_counterexample returns None; a counterexample
\* returned is the first valuation in enumeration order that makes every
\* axiom true and the proposition false.
C2_EntailsIffNoCounterexample ==
  /\ out.op = "entails" =>
       (out.result <=> ~FindCounterexample(axioms, out.proposition).found)
  /\ out.op = "find_counterexample" =>
       /\ ~out.raised
       /\ ~out.found <=> Entails(axioms, out.proposition).result
       /\ out.found => out.valuation = FirstFalsifying(axioms, out.proposition)

\* a counterexample was returned that is not the first valuation enumerated
C2_Witness ==
  /\ out.op = "find_counterexample"
  /\ out.found
  /\ \E x \in DOMAIN out.valuation : out.valuation[x]
  /\ ~Entails(axioms, out.proposition).result

\* the valuations that make every axiom true, in the order of all_valuations
Qualifying(axs) ==
  LET Q(v) == AllHold(axs, v) IN SelectSeq(AllValuations(Sorted(VarsOfAll(axs))), Q)

\* the number of valuations enumerated when the m-th qualifying one is reached
RECURSIVE PulledAt(_, _, _)
PulledAt(axs, all, m) ==
  IF m = 0 THEN 0
  ELSE LET k == SetMin({i \in DOMAIN all : AllHold(axs, all[i])})
       IN k + PulledAt(axs, SubSeq(all, k + 1, Len(all)), m - 1)

\* C3: for every max_models, 0 included, is_satisfiable returns at most
\* max_models valuations and the enumeration stops as soon as max_models
\* qualifying valuations are collected.
C3_AtMostMaxModels ==
  out.op = "is_satisfiable" =>
    /\ Len(out.models) <= out.max_models
    /\ Len(Qualifying(axioms)) >= out.max_models =>
         out.pulled = PulledAt(axioms, AllValuations(Sorted(VarsOfAll(axioms))),
                               out.max_models)

\* C4: for max_models >= 1, is_satisfiable returns (b, models) with b true
\* iff some total valuation makes every axiom true, and models the first
\* min(max_models, number of qualifying valuations) qualifying valuations in
\* enumeration order, each making every axiom true, pairwise distinct.
C4_ModelsArePrefix ==
  (out.op = "is_satisfiable" /\ out.max_models >= 1) =>
    LET qual == Qualifying(axioms) IN
    /\ ~out.raised
    /\ out.sat = Satisfiable(axioms)
    /\ \A k \in DOMAIN out.models :
         /\ DOMAIN out.models[k] = VarsOfAll(axioms)
         /\ AllHold(axioms, out.models[k])
    /\ \A j, k \in DOMAIN out.models : j # k => out.models[j] # out.models[k]
    /\ out.models = SubSeq(qual, 1, Min(out.max_models, Len(qual)))
    /\ ~Satisfiable(axioms) => (~out.sat /\ out.models = <<>>)
    /\ out.pulled =
         (IF Len(qual) >= out.max_models
            THEN PulledAt(axioms, AllValuations(Sorted(VarsOfAll(axioms))), out.max_models)
            ELSE Len(AllValuations(Sorted(VarsOfAll(axioms)))))

\* the enumeration stopped early with max_models >= 2 models collected
C4_Witness ==
  /\ out.op = "is_satisfiable"
  /\ out.max_models >= 2
  /\ Len(out.models) = out.max_models
  /\ out.pulled < 2 ^ Cardinality(VarsOfAll(axioms))
  /\ Len(Qualifying(axioms)) > out.max_models

\* C9: for every expression and every valuation that lacks one of its free
\* variables, eval fails with the undefined-variable error.
C9_MissingVariableFails ==
  (out.op = "eval" /\ ~(FreeVars(expr) \subseteq DOMAIN out.valuation)) =>
    out.result = "KeyError"

-----------------------------------------------------------------------------
(* The claim about all_valuations. *)

\* bit b of k, bit 0 being the least significant
Bit(k, b) == (k \div (2 ^ b)) % 2 = 1

\* the valuation number k (from 0), the name at list position i (from 0)
\* taking bit i of k
ValuationLowFirst(names, k) ==
  [x \in Range(names) |-> Bit(k, (CHOOSE i \in DOMAIN names : names[i] = x) - 1)]

\* the valuation number k (from 0), the name at list position i (from 0)
\* taking bit n-1-i of k: the first name is the most significant bit
ValuationHighFirst(names, k) ==
  [x \in Range(names) |->
     Bit(k, Len(names) - (CHOOSE i \in DOMAIN names : names[i] = x))]

IsPrefix(s, t) == Len(s) <= Len(t) /\ s = SubSeq(t, 1, Len(s))

\* what holds of the generators whichever bit a list position stands for
GeneratorsWellFormed ==
  \A g \in DOMAIN gens :
    LET y == gens[g].yielded IN
    /\ Len(y) <= 2 ^ Len(vars_list)
    /\ gens[g].state = "done" => Len(y) = 2 ^ Len(vars_list)
    /\ \A k \in DOMAIN y : DOMAIN y[k] = Range(vars_list)
    /\ \A j, k \in DOMAIN y : j # k => y[j] # y[k]
    /\ \A h \in DOMAIN gens : IsPrefix(y, gens[h].yielded) \/ IsPrefix(gens[h].yielded, y)

\* C10, as stated: the valuation number k gives the name at list position i
\* bit i of k.
C10_ListPositionIsBitPosition ==
  /\ GeneratorsWellFormed
  /\ \A g \in DOMAIN gens : \A k \in DOMAIN gens[g].yielded :
       gens[g].yielded[k] = ValuationLowFirst(vars_list, k - 1)

\* C10, amended: all_valuations yields 2^n valuations, each total over the
\* list, pairwise distinct, number k giving the name at list position i bit
\* n-1-i of k (the last name changes fastest); every call yields the same
\* sequence whatever the other generators did.
C10_FirstNameIsHighBit ==
  /\ GeneratorsWellFormed
  /\ \A g \in DOMAIN gens : \A k \in DOMAIN gens[g].yielded :
       gens[g].yielded[k] = ValuationHighFirst(vars_list, k - 1)

\* two generators over a list of two names ran to their end
C10_Witness ==
  /\ Len(vars_list) >= 2
  /\ Len(gens) >= 2
  /\ gens[1].state = "done"
  /\ gens[2].state = "done"
  /\ Len(gens[2].yielded) = 2 ^ Len(vars_list)

====
